---- MODULE Spec2Model ----
(***************************************************************************)
(* The notification store of clair (database/pgsql/notification.go) and    *)
(* the notifications.Service contract it implements.                       *)
(*                                                                         *)
(* The Vulnerability_Notification table is the sequence rows; a nullable   *)
(* column is a record [Valid, Time] or [Valid, Int64], as zero.Time and    *)
(* sql.NullInt64 are.  The SQL statements the Go code executes             *)
(* (insertNotification, searchNotificationAvailable, searchNotification,   *)
(* updatedNotificationNotified, removeNotification) and handleError live   *)
(* in files that are not part of the sources at hand; they are modelled    *)
(* from the specification's sections 4.1, 4.2 and 7.                       *)
(***************************************************************************)
EXTENDS Integers, Sequences, FiniteSets

\* ------------------------------------------------------------------ bounds
MaxTime == 3
MaxRows == 2
MaxInterval == 1
MaxVulnID == 1

MaxVersions == 3
MaxLayers == 4
MaxLimit == 3
MaxNullCalls == 3

Intervals == 0..MaxInterval
VulnIDs == 0..MaxVulnID
\* One name more than there can be rows: some name never names a row.
NameSpace == 1..(MaxRows + 1)
Consumers == {"c1", "c2"}
\* The vulnerabilities (namespace and name), their severities and the features
\* a fix-list can hold.
VulnKeys == {"V1", "V2"}
Severities == {"Unknown", "High"}
Features == {"F1"}
VulnStates == [severity : Severities, fixedIn : SUBSET Features]
LayerIDs == 1..MaxLayers
Limits == 1..MaxLimit
\* The values of cfg.Type, and the driver functions there are to register.
DriverNames == {"pgsql", "memory"}
Drivers == {"driver1", "driver2"}

\* ----------------------------------------------------------- Go zero values
\* time.Time{}: what zero.Time.Time holds for a NULL column.
ZeroTime == 0
\* "": the Name of services.VulnerabilityNotification{}.
NoName == 0

NullTime == [Valid |-> FALSE, Time |-> ZeroTime]
\* sql.NullInt64{}: a NULL integer column.
NullID == [Int64 |-> 0, Valid |-> FALSE]
SomeTime(t) == [Valid |-> TRUE, Time |-> t]
\* A *services.Vulnerability: nil, or a vulnerability whose Model has this
\* ID; the fields left out of a composite literal hold their zero values.
Vulnerability(id, severity, fixedIn, layers) ==
  [Nil |-> FALSE, ID |-> id, Severity |-> severity, FixedIn |-> fixedIn,
   LayersIntroducingVulnerability |-> layers]
NilVulnerability ==
  [Nil |-> TRUE, ID |-> 0, Severity |-> "", FixedIn |-> {},
   LayersIntroducingVulnerability |-> << >>]
EmptyNotification ==
  [ID |-> 0, Name |-> NoName, Created |-> ZeroTime, Notified |-> ZeroTime,
   Deleted |-> ZeroTime, OldVulnerability |-> NilVulnerability,
   NewVulnerability |-> NilVulnerability]

\* One side of the notification a consumer drains: nil, or a vulnerability and
\* the ids of the layers that introduce it.
NoSide == [Nil |-> TRUE, introducing |-> {}]
Side(S) == [Nil |-> FALSE, introducing |-> S]
Sides == {"OldVulnerability", "NewVulnerability"}

\* A vulnerability's observable state; NoState where there is none.
NoState == [severity |-> "", fixedIn |-> {}]

\* A nil pointer, map entry or service.
Nil == "nil"

\* services.VulnerabilityNotificationFirstPage and
\* services.NoVulnerabilityNotificationPage, per side.
VulnerabilityNotificationFirstPage == 0
NoVulnerabilityNotificationPage == -1

VARIABLES
  rows,          \* the Vulnerability_Notification table, in insertion order
  now,           \* the clock (time.Now() and CURRENT_TIMESTAMP)
  last,          \* the call that completed last: operation, arguments, result
  createdNames,  \* history: the names CreateNotification has stored
  deletedNames,  \* history: the names DeleteNotification has succeeded on
  pc,            \* per consumer: "idle", or "query" inside GetAvailableNotification
  call,          \* per consumer: the running call's time.Now() and interval
  claim,         \* per consumer: the name its last call returned, and since when
  conc,          \* per consumer: the consumers whose latest call overlapped its own
  createdRefs,   \* history: per stored name, the IDs CreateNotification was given
  vulnz,         \* the vulnerability table: one row per version, never overwritten
  vulnSeq,       \* the last vulnerability id the store has assigned
  mut,           \* the vulnerability mutation in progress, or the one that ended last
  committed,     \* history: the (old id, new id) of every mutation that committed
  introducing,   \* the ids of the layers that introduce the vulnerability being paged
  limit,         \* the page size the consumer asks for
  offset,        \* the page position the consumer holds: 0 first, -1 no more data
  calls,         \* history: calls of LoadLayerIntroducingVulnerability so far
  fetched,       \* history: the layers those calls returned, in order
  loaded,        \* vulnerability.LayersIntroducingVulnerability after the last call
  notificationDrivers,  \* the registry of package notifications: name -> driver
  vulnzDrivers,         \* the registry of package vulnerabilities: name -> driver
  nullCalls,     \* history: the methods called on the Null service, in order
  filledNotification,   \* the drain: per side, the number of introducing layers, or Nil
  page,          \* the drain: the page position, one offset per side
  drainPc,       \* the drain: "get" before GetNotification, then "page", then "done"
  paged          \* history of the drain: per side, the accessor calls made

diffVars == <<vulnz, vulnSeq, mut, committed>>
pageVars == <<introducing, limit, offset, calls, fetched, loaded>>
registryVars == <<notificationDrivers, vulnzDrivers>>
drainVars == <<filledNotification, page, drainPc, paged>>
svcVars == <<registryVars, nullCalls, drainVars>>
\* What the calls of the notification store leave alone.
extVars == <<diffVars, pageVars, svcVars>>

vars == <<rows, now, last, createdNames, deletedNames, pc, call, claim, conc,
          createdRefs, diffVars, pageVars, svcVars>>

\* ---------------------------------------------------------------- helpers
Indices(rs) == 1..Len(rs)
NamesOf(rs) == {rs[i].name : i \in Indices(rs)}
RowsNamed(rs, name) == {i \in Indices(rs) : rs[i].name = name}

\* Mutant of uuidNew: a name that may be in use already.
uuidNew_Any(rs) == NameSpace
\* uuid.New(): a random 128-bit name, taken to collide with no stored name.
uuidNew(rs) == NameSpace \ NamesOf(rs)

\* Mutant of NullableID: every ID counts as present.
NullableID_AlwaysValid(id) == [Int64 |-> id, Valid |-> TRUE]
\* Mutant of NullableID: the test of the ID is inverted.
NullableID_Inverted(id) == [Int64 |-> id, Valid |-> id = 0]
\* sql.NullInt64{Int64: int64(v.ID), Valid: v.ID != 0}
NullableID_NonNegative(id) == [Int64 |-> id, Valid |-> id >= 0]
NullableID(id) == [Int64 |-> id, Valid |-> id # 0]

\* Mutants of Before: the interval added instead of subtracted; the operands
\* swapped.
Before_SignFlipped(t, d) == t + d
Before_Swapped(t, d) == d - t
\* before := time.Now().Add(-renotifyInterval)
Before(t, d) == t - d

\* ------------------------------------------------- the SQL statements
\* INSERT ... VALUES(name, CURRENT_TIMESTAMP, old, new): Notified, Deleted NULL.
insertNotification(rs, name, old, new, t) ==
  Append(rs, [id |-> Len(rs) + 1, name |-> name, created_at |-> SomeTime(t),
              notified_at |-> NullTime, deleted_at |-> NullTime,
              old_vulnerability_id |-> IF old.Valid THEN old ELSE NullID,
              new_vulnerability_id |-> IF new.Valid THEN new ELSE NullID])

\* The rows the availability query may yield: not deleted, and never notified
\* or notified before the instant given.
searchNotificationAvailable(rs, before) ==
  {i \in Indices(rs) :
     /\ ~rs[i].deleted_at.Valid
     /\ (~rs[i].notified_at.Valid \/ rs[i].notified_at.Time < before)}

\* The rows of that name, whatever their state.
searchNotification(rs, name) == RowsNamed(rs, name)

\* UPDATE ... SET notified_at = CURRENT_TIMESTAMP WHERE name = $1
updatedNotificationNotifiedWhere(rs, name) == RowsNamed(rs, name)
updatedNotificationNotified(rs, name, t) ==
  [i \in Indices(rs) |->
     IF i \in updatedNotificationNotifiedWhere(rs, name)
       THEN [rs[i] EXCEPT !.notified_at = SomeTime(t)] ELSE rs[i]]

\* UPDATE ... SET deleted_at = CURRENT_TIMESTAMP WHERE name = $1 and the row
\* is not deleted yet
removeNotificationWhere(rs, name) ==
  {i \in RowsNamed(rs, name) : ~rs[i].deleted_at.Valid}
removeNotification(rs, name, t) ==
  [i \in Indices(rs) |->
     IF i \in removeNotificationWhere(rs, name)
       THEN [rs[i] EXCEPT !.deleted_at = SomeTime(t)] ELSE rs[i]]

\* handleError: nil stays nil, sql.ErrNoRows is cerrors.ErrNotFound, anything
\* else is services.ErrBackendException.
handleError(err) ==
  CASE err = "nil" -> "nil"
    [] err = "ErrNoRows" -> "NotFound"
    [] OTHER -> "BackendException"

\* ------------------------------------------------------- scanNotification
\* Mutant of ScanVulnerability: the column's Valid is not looked at.
ScanVulnerability_IgnoresValid(col) == Vulnerability(col.Int64, "", {}, << >>)
\* &services.Vulnerability{Model: services.Model{int(id.Int64)}} if id.Valid
ScanVulnerability(col) ==
  IF col.Valid THEN Vulnerability(col.Int64, "", {}, << >>) ELSE NilVulnerability

\* Mutant of scanNotification: Deleted is not copied from the row.
scanNotification_DropsDeleted(row, hasVulns) ==
  [ID |-> row.id, Name |-> row.name,
   Created |-> row.created_at.Time,
   Notified |-> row.notified_at.Time,
   Deleted |-> ZeroTime,
   OldVulnerability |->
     IF hasVulns THEN ScanVulnerability(row.old_vulnerability_id) ELSE NilVulnerability,
   NewVulnerability |->
     IF hasVulns THEN ScanVulnerability(row.new_vulnerability_id) ELSE NilVulnerability]
scanNotification(row, hasVulns) ==
  [ID |-> row.id, Name |-> row.name,
   Created |-> row.created_at.Time,
   Notified |-> row.notified_at.Time,
   Deleted |-> row.deleted_at.Time,
   OldVulnerability |->
     IF hasVulns THEN ScanVulnerability(row.old_vulnerability_id) ELSE NilVulnerability,
   NewVulnerability |->
     IF hasVulns THEN ScanVulnerability(row.new_vulnerability_id) ELSE NilVulnerability]

\* ------------------------------------------------------------------ state
Call(op, name, d, err, ret) ==
  [op |-> op, name |-> name, d |-> d, err |-> err, ret |-> ret]

NoCall == [at |-> 0, d |-> 0]
NoClaim == [name |-> NoName, at |-> 0, d |-> 0]
NoMutation ==
  [phase |-> "none", op |-> "none", kind |-> "none", key |-> "", old |-> 0, new |-> 0,
   before |-> NoState, after |-> NoState, names |-> {}]

\* createdRefs with the arguments of the call that stored name.
Given(refs, name, oldID, newID) ==
  [n \in DOMAIN refs \cup {name} |->
     IF n = name THEN [old |-> oldID, new |-> newID] ELSE refs[n]]

\* The consumer has yet to look the notification up.
DrainStarts ==
  /\ page = [side \in Sides |-> VulnerabilityNotificationFirstPage]
  /\ drainPc = "get"
  /\ paged = [side \in Sides |-> 0]

InitStore ==
  /\ rows = << >>
  /\ now = 1
  /\ last = Call("none", NoName, 0, "nil", EmptyNotification)
  /\ createdNames = {}
  /\ deletedNames = {}
  /\ pc = [c \in Consumers |-> "idle"]
  /\ call = [c \in Consumers |-> NoCall]
  /\ claim = [c \in Consumers |-> NoClaim]
  /\ conc = [c \in Consumers |-> {}]
  /\ createdRefs = << >>
  /\ vulnz = << >>
  /\ vulnSeq = 0
  /\ mut = NoMutation
  /\ committed = {}
  /\ notificationDrivers = << >>
  /\ vulnzDrivers = << >>
  /\ nullCalls = << >>
  /\ DrainStarts

\* No vulnerability is being paged.
Init ==
  /\ InitStore
  /\ introducing = {}
  /\ limit = 1
  /\ offset = VulnerabilityNotificationFirstPage
  /\ calls = 0
  /\ fetched = << >>
  /\ loaded = << >>
  /\ filledNotification = [side \in Sides |-> NoSide]

consumerVars == <<pc, call, claim, conc>>

\* ---------------------------------------------------------------- actions
\* A consumer holds the name it was handed until renotifyInterval has elapsed
\* since, or until the notification is deleted (acknowledged).
Expire(cl, t) == IF cl.name # NoName /\ t - cl.at >= cl.d THEN NoClaim ELSE cl
Release(cl, name) == IF cl.name = name THEN NoClaim ELSE cl

\* Time passes.
Tick ==
  /\ now < MaxTime
  /\ now' = now + 1
  /\ last' = Call("Tick", NoName, 0, "nil", EmptyNotification)
  /\ claim' = [c \in Consumers |-> Expire(claim[c], now')]
  /\ UNCHANGED <<createdRefs, extVars, rows, createdNames, deletedNames, pc, call, conc>>

\* Mutant of CreateNotificationCall: each column is built from the other
\* argument.
CreateNotificationCall_SwapsArgs(oldID, newID) ==
  \E name \in uuidNew(rows) :
    /\ rows' = insertNotification(rows, name, NullableID(newID), NullableID(oldID), now)
    /\ createdNames' = createdNames \cup {name}
    /\ createdRefs' = Given(createdRefs, name, oldID, newID)
    /\ last' = Call("CreateNotification", name, 0, "nil", EmptyNotification)
\* What a call of CreateNotification does to the store.  last.name records the
\* name generated, which the call does not return.
CreateNotificationCall(oldID, newID) ==
  \E name \in uuidNew(rows) :
    /\ rows' = insertNotification(rows, name, NullableID(oldID), NullableID(newID), now)
    /\ createdNames' = createdNames \cup {name}
    /\ createdRefs' = Given(createdRefs, name, oldID, newID)
    /\ last' = Call("CreateNotification", name, 0, "nil", EmptyNotification)

CreateNotification(oldID, newID) ==
  /\ Len(rows) < MaxRows
  /\ CreateNotificationCall(oldID, newID)
  /\ UNCHANGED <<extVars, now, deletedNames, consumerVars>>

\* Mutant of GetAvailableNotification: the call marks the notification it
\* returns as notified.
GetAvailableNotification_SetsNotified(d) ==
  LET before == Before(now, d)
      found == searchNotificationAvailable(rows, before)
  IN /\ \/ /\ found = {}
           /\ last' = Call("GetAvailableNotification", NoName, d,
                           handleError("ErrNoRows"), EmptyNotification)
           /\ rows' = rows
        \/ \E i \in found :
             /\ last' = Call("GetAvailableNotification", NoName, d,
                             handleError("nil"), scanNotification(rows[i], FALSE))
             /\ rows' = updatedNotificationNotified(rows, rows[i].name, now)
     /\ UNCHANGED <<createdRefs, extVars, now, createdNames, deletedNames, consumerVars>>
\* One call, from reading the clock to the scan of the row the query yields.
GetAvailableNotification(d) ==
  LET before == Before(now, d)
      found == searchNotificationAvailable(rows, before)
  IN /\ \/ /\ found = {}
           /\ last' = Call("GetAvailableNotification", NoName, d,
                           handleError("ErrNoRows"), EmptyNotification)
        \/ \E i \in found :
             last' = Call("GetAvailableNotification", NoName, d,
                          handleError("nil"), scanNotification(rows[i], FALSE))
     /\ UNCHANGED <<createdRefs, extVars, rows, now, createdNames, deletedNames, consumerVars>>

\* Mutant of GetNotification: the scan's error is dropped.
GetNotification_IgnoresErr(name) ==
  LET found == searchNotification(rows, name)
  IN /\ \/ /\ found = {}
           /\ last' = Call("GetNotification", name, 0, "nil", EmptyNotification)
        \/ \E i \in found :
             last' = Call("GetNotification", name, 0, "nil",
                          scanNotification(rows[i], TRUE))
     /\ UNCHANGED <<createdRefs, extVars, rows, now, createdNames, deletedNames, consumerVars>>
GetNotification(name) ==
  LET found == searchNotification(rows, name)
  IN /\ \/ /\ found = {}
           /\ last' = Call("GetNotification", name, 0,
                           handleError("ErrNoRows"), EmptyNotification)
        \/ \E i \in found :
             last' = Call("GetNotification", name, 0, "nil",
                          scanNotification(rows[i], TRUE))
     /\ UNCHANGED <<createdRefs, extVars, rows, now, createdNames, deletedNames, consumerVars>>

\* Mutant of SetNotificationNotified: the statement executed is the one that
\* marks the row deleted.
SetNotificationNotified_WrongStatement(name) ==
  /\ rows' = removeNotification(rows, name, now)
  /\ last' = Call("SetNotificationNotified", name, 0, "nil", EmptyNotification)
  /\ UNCHANGED <<createdRefs, extVars, now, createdNames, deletedNames, consumerVars>>
SetNotificationNotified(name) ==
  /\ rows' = updatedNotificationNotified(rows, name, now)
  /\ last' = Call("SetNotificationNotified", name, 0, "nil", EmptyNotification)
  /\ UNCHANGED <<createdRefs, extVars, now, createdNames, deletedNames, consumerVars>>

\* Mutant of DeleteNotification: the affected-row count is not looked at.
DeleteNotification_NoAffectedCheck(name) ==
  /\ rows' = removeNotification(rows, name, now)
  /\ deletedNames' = deletedNames \cup {name}
  /\ last' = Call("DeleteNotification", name, 0, "nil", EmptyNotification)
  /\ claim' = [c \in Consumers |-> Release(claim[c], name)]
  /\ UNCHANGED <<createdRefs, extVars, now, createdNames, pc, call, conc>>
\* Mutant of DeleteNotification: the statement executed is the one that marks
\* the row notified.
DeleteNotification_WrongStatement(name) ==
  LET affected == Cardinality(updatedNotificationNotifiedWhere(rows, name))
      err == IF affected <= 0 THEN "NotFound" ELSE "nil"
  IN /\ rows' = updatedNotificationNotified(rows, name, now)
     /\ deletedNames' = IF err = "nil" THEN deletedNames \cup {name} ELSE deletedNames
     /\ last' = Call("DeleteNotification", name, 0, err, EmptyNotification)
     /\ claim' = IF err = "nil" THEN [c \in Consumers |-> Release(claim[c], name)]
                                ELSE claim
     /\ UNCHANGED <<createdRefs, extVars, now, createdNames, pc, call, conc>>
\* Mutant of DeleteNotification: the deletion also clears the row's Notified.
DeleteNotification_ClearsNotified(name) ==
  LET affected == Cardinality(removeNotificationWhere(rows, name))
      err == IF affected <= 0 THEN "NotFound" ELSE "nil"
      removed == removeNotification(rows, name, now)
  IN /\ rows' = [i \in Indices(rows) |->
                  IF i \in removeNotificationWhere(rows, name)
                    THEN [removed[i] EXCEPT !.notified_at = NullTime] ELSE removed[i]]
     /\ deletedNames' = IF err = "nil" THEN deletedNames \cup {name} ELSE deletedNames
     /\ last' = Call("DeleteNotification", name, 0, err, EmptyNotification)
     /\ claim' = IF err = "nil" THEN [c \in Consumers |-> Release(claim[c], name)]
                                ELSE claim
     /\ UNCHANGED <<createdRefs, extVars, now, createdNames, pc, call, conc>>
DeleteNotification(name) ==
  LET affected == Cardinality(removeNotificationWhere(rows, name))
      err == IF affected <= 0 THEN "NotFound" ELSE "nil"
  IN /\ rows' = removeNotification(rows, name, now)
     /\ deletedNames' = IF err = "nil" THEN deletedNames \cup {name} ELSE deletedNames
     /\ last' = Call("DeleteNotification", name, 0, err, EmptyNotification)
     /\ claim' = IF err = "nil" THEN [c \in Consumers |-> Release(claim[c], name)]
                                ELSE claim
     /\ UNCHANGED <<createdRefs, extVars, now, createdNames, pc, call, conc>>

\* The calls of the service, one at a time, with any arguments.
Next ==
  \/ Tick
  \/ \E o \in VulnIDs, n \in VulnIDs : CreateNotification(o, n)
  \/ \E d \in Intervals : GetAvailableNotification(d)
  \/ \E name \in NameSpace : GetNotification(name)
  \/ \E name \in NameSpace : SetNotificationNotified(name)
  \/ \E name \in NameSpace : DeleteNotification(name)

Spec == Init /\ [][Next]_vars

\* ------------------------------------------------- concurrent consumers
\* A consumer enters GetAvailableNotification: it reads the clock.  The calls
\* still running overlap this one; a call that has returned does not.
GetAvailableBegin(c, d) ==
  /\ pc[c] = "idle"
  /\ pc' = [pc EXCEPT ![c] = "query"]
  /\ call' = [call EXCEPT ![c] = [at |-> now, d |-> d]]
  /\ conc' = [x \in Consumers |->
               IF x = c THEN {y \in Consumers \ {c} : pc[y] = "query"}
               ELSE IF pc[x] = "query" THEN conc[x] \cup {c}
               ELSE conc[x] \ {c}]
  /\ last' = Call("GetAvailableBegin", NoName, d, "nil", EmptyNotification)
  /\ UNCHANGED <<createdRefs, extVars, rows, now, createdNames, deletedNames, claim>>

\* The query of the running call and the scan of its row; the call returns.
GetAvailableQuery(c) ==
  LET before == Before(call[c].at, call[c].d)
      found == searchNotificationAvailable(rows, before)
  IN /\ pc[c] = "query"
     /\ pc' = [pc EXCEPT ![c] = "idle"]
     /\ call' = [call EXCEPT ![c] = NoCall]
     /\ \/ /\ found = {}
           /\ last' = Call("GetAvailableNotification", NoName, call[c].d,
                           handleError("ErrNoRows"), EmptyNotification)
           /\ claim' = [claim EXCEPT ![c] = NoClaim]
        \/ \E i \in found :
             /\ last' = Call("GetAvailableNotification", NoName, call[c].d,
                             handleError("nil"), scanNotification(rows[i], FALSE))
             /\ claim' = [claim EXCEPT ![c] =
                            Expire([name |-> rows[i].name, at |-> now, d |-> call[c].d], now)]
     /\ UNCHANGED <<createdRefs, extVars, rows, now, createdNames, deletedNames, conc>>

\* Two consumers poll with the longest interval; their calls interleave with
\* each other and with the other calls of the service.
NextConc ==
  \/ Tick
  \/ CreateNotification(0, MaxVulnID)
  \/ \E c \in Consumers : GetAvailableBegin(c, MaxInterval)
  \/ \E c \in Consumers : GetAvailableQuery(c)
  \/ \E name \in NamesOf(rows) : SetNotificationNotified(name)
  \/ \E name \in NamesOf(rows) : DeleteNotification(name)

ConcSpec == Init /\ [][NextConc]_vars

\* The call of consumer c returns the notification named name.
QueryReturns(c, name) == GetAvailableQuery(c) /\ last'.ret.Name = name

\* Consumer c1 polls; any other caller may obtain a notification, mark it or
\* delete it, and may stop doing so at any point (a crash).
NextPoll ==
  \/ Tick
  \/ CreateNotification(0, MaxVulnID)
  \/ GetAvailableBegin("c1", MaxInterval)
  \/ GetAvailableQuery("c1")
  \/ GetAvailableNotification(MaxInterval)
  \/ \E name \in NamesOf(rows) : SetNotificationNotified(name)
  \/ \E name \in NamesOf(rows) : DeleteNotification(name)

\* Time advances and consumer c1 keeps polling.  Among several qualifying
\* rows the query's choice postpones none forever.
PollSpec ==
  /\ Init /\ [][NextPoll]_vars
  /\ WF_vars(Tick)
  /\ WF_vars(GetAvailableBegin("c1", MaxInterval))
  /\ WF_vars(GetAvailableQuery("c1"))
  /\ \A name \in NameSpace : SF_vars(QueryReturns("c1", name))

\* ------------------------------------------- the vulnerability diff trigger
\* The version of that vulnerability in force, if any.
Current(vs, key) == {i \in Indices(vs) : vs[i].key = key /\ vs[i].live}

\* FindVulnerabilityByID: the version of that id, in force or not, without
\* its layers.
FindVulnerabilityByID(vs, id) ==
  IF \E i \in Indices(vs) : vs[i].id = id
    THEN LET i == CHOOSE j \in Indices(vs) : vs[j].id = id
         IN [err |-> "nil",
             ret |-> Vulnerability(id, vs[i].state.severity, vs[i].state.fixedIn, << >>)]
    ELSE [err |-> "NotFound", ret |-> NilVulnerability]

InProgress == mut.phase \in {"open", "notified", "failed"}

\* A mutation opens its transaction: the version it supersedes or deletes, the
\* id of the version it adds (the id sequence is not rolled back), and the
\* vulnerability's state before and after.
Open(op, kind, key, old, before, after) ==
  /\ vulnSeq' = IF kind = "delete" THEN vulnSeq ELSE vulnSeq + 1
  /\ mut' = [phase |-> "open", op |-> op, kind |-> kind, key |-> key, old |-> old,
             new |-> IF kind = "delete" THEN 0 ELSE vulnSeq + 1,
             before |-> before, after |-> after, names |-> {}]
  /\ last' = Call("Begin", NoName, 0, "nil", EmptyNotification)
  /\ UNCHANGED <<vulnz, committed>>

\* The call changes nothing and creates no notification.
Returns(op, err) ==
  /\ last' = Call(op, NoName, 0, err, EmptyNotification)
  /\ UNCHANGED diffVars

\* An update of the vulnerability in force to the state given, if it differs.
Update(op, key, i, after) ==
  IF vulnz[i].state = after
    THEN Returns(op, "nil")
    ELSE Open(op, "update", key, vulnz[i].id, vulnz[i].state, after)

CanBegin == ~InProgress /\ vulnSeq < MaxVersions /\ uuidNew(rows) # {}
storeVars ==
  <<rows, now, createdNames, deletedNames, consumerVars, createdRefs, pageVars, svcVars>>

\* One vulnerability of the list; st is the state the store gives it.
InsertVulnerabilities(key, st) ==
  /\ CanBegin
  /\ \/ /\ Current(vulnz, key) = {}
        /\ Open("InsertVulnerabilities", "insert", key, 0, NoState, st)
     \/ \E i \in Current(vulnz, key) : Update("InsertVulnerabilities", key, i, st)
  /\ UNCHANGED storeVars

InsertVulnerabilityFixes(key, fixes) ==
  /\ CanBegin
  /\ \/ /\ Current(vulnz, key) = {}
        /\ Returns("InsertVulnerabilityFixes", "NotFound")
     \/ \E i \in Current(vulnz, key) :
          Update("InsertVulnerabilityFixes", key, i,
                 [vulnz[i].state EXCEPT !.fixedIn = @ \cup fixes])
  /\ UNCHANGED storeVars

DeleteVulnerabilityFix(key, featureName) ==
  /\ CanBegin
  /\ \/ /\ Current(vulnz, key) = {}
        /\ Returns("DeleteVulnerabilityFix", "NotFound")
     \/ \E i \in Current(vulnz, key) :
          Update("DeleteVulnerabilityFix", key, i,
                 [vulnz[i].state EXCEPT !.fixedIn = @ \ {featureName}])
  /\ UNCHANGED storeVars

DeleteVulnerability(key) ==
  /\ ~InProgress
  /\ uuidNew(rows) # {}
  /\ \/ /\ Current(vulnz, key) = {}
        /\ Returns("DeleteVulnerability", "NotFound")
     \/ \E i \in Current(vulnz, key) :
          Open("DeleteVulnerability", "delete", key, vulnz[i].id, vulnz[i].state, NoState)
  /\ UNCHANGED storeVars

\* The mutation in progress calls notez.CreateNotification(old, new); the
\* insert is executed on the store's own handle.
TriggerCreateNotification ==
  /\ mut.phase = "open"
  /\ CreateNotificationCall(mut.old, mut.new)
  /\ mut' = [mut EXCEPT !.phase = "notified", !.names = @ \cup {last'.name}]
  /\ UNCHANGED <<now, deletedNames, consumerVars, pageVars, svcVars, vulnz, vulnSeq,
                 committed>>

\* The insert fails: CreateNotification returns handleError's error.
TriggerCreateNotificationFails ==
  /\ mut.phase = "open"
  /\ last' = Call("CreateNotification", NoName, 0, handleError("bad connection"),
                  EmptyNotification)
  /\ mut' = [mut EXCEPT !.phase = "failed"]
  /\ UNCHANGED <<storeVars, vulnz, vulnSeq, committed>>

\* Mutant of Commit: an update overwrites the version in force and gives it
\* the new id.
Commit_OverwritesInPlace ==
  /\ mut.phase = "notified"
  /\ LET retired == [i \in Indices(vulnz) |->
                       IF vulnz[i].id = mut.old THEN [vulnz[i] EXCEPT !.live = FALSE]
                       ELSE vulnz[i]]
         overwritten == [i \in Indices(vulnz) |->
                           IF vulnz[i].id = mut.old
                             THEN [vulnz[i] EXCEPT !.id = mut.new, !.state = mut.after]
                             ELSE vulnz[i]]
     IN vulnz' = IF mut.kind = "delete" THEN retired
                 ELSE IF mut.kind = "update" THEN overwritten
                 ELSE Append(retired, [id |-> mut.new, key |-> mut.key,
                                       state |-> mut.after, live |-> TRUE])
  /\ committed' = committed \cup {[old |-> mut.old, new |-> mut.new]}
  /\ mut' = [mut EXCEPT !.phase = "committed"]
  /\ last' = Call(mut.op, NoName, 0, "nil", EmptyNotification)
  /\ UNCHANGED <<storeVars, vulnSeq>>
\* The mutation commits: the version superseded or deleted is retired, not
\* overwritten, and the new version is appended.
Commit ==
  /\ mut.phase = "notified"
  /\ LET retired == [i \in Indices(vulnz) |->
                       IF vulnz[i].id = mut.old THEN [vulnz[i] EXCEPT !.live = FALSE]
                       ELSE vulnz[i]]
     IN vulnz' = IF mut.kind = "delete" THEN retired
                 ELSE Append(retired, [id |-> mut.new, key |-> mut.key,
                                       state |-> mut.after, live |-> TRUE])
  /\ committed' = committed \cup {[old |-> mut.old, new |-> mut.new]}
  /\ mut' = [mut EXCEPT !.phase = "committed"]
  /\ last' = Call(mut.op, NoName, 0, "nil", EmptyNotification)
  /\ UNCHANGED <<storeVars, vulnSeq>>

\* The mutation fails (one of its statements, the notification or the commit)
\* and its transaction is rolled back.
Rollback ==
  /\ InProgress
  /\ mut' = [mut EXCEPT !.phase = "rolledback"]
  /\ last' = Call(mut.op, NoName, 0, "BackendException", EmptyNotification)
  /\ UNCHANGED <<storeVars, vulnz, vulnSeq, committed>>

FindVulnerabilityByIDCall(id) ==
  /\ last' = Call("FindVulnerabilityByID", NoName, 0, FindVulnerabilityByID(vulnz, id).err,
                  FindVulnerabilityByID(vulnz, id).ret)
  /\ UNCHANGED <<storeVars, diffVars>>

\* The vulnerability store's mutations, each with its notification, and the
\* lookups a consumer resolves a notification with.
NextDiff ==
  \/ \E key \in VulnKeys, st \in VulnStates : InsertVulnerabilities(key, st)
  \/ \E key \in VulnKeys, f \in Features : InsertVulnerabilityFixes(key, {f})
  \/ \E key \in VulnKeys, f \in Features : DeleteVulnerabilityFix(key, f)
  \/ \E key \in VulnKeys : DeleteVulnerability(key)
  \/ TriggerCreateNotification
  \/ TriggerCreateNotificationFails
  \/ Commit
  \/ Rollback
  \/ \E name \in NamesOf(rows) : GetNotification(name)
  \/ \E id \in 1..MaxVersions : FindVulnerabilityByIDCall(id)

DiffSpec == Init /\ [][NextDiff]_vars

\* --------------------------------------------------- the pagination cursor
\* The layers that introduce the vulnerability, in the order of their ids.
LayersOf(S) ==
  CHOOSE f \in [1..Cardinality(S) -> S] : \A i, j \in 1..Cardinality(S) : i < j => f[i] < f[j]
Min(a, b) == IF a < b THEN a ELSE b

\* Mutant of LoadLayerIntroducingVulnerability: no look past the page; a full
\* page is taken to have a successor.
LoadLayerIntroducingVulnerability_FullPageGoesOn(layers, n, off) ==
  [layers |-> SubSeq(layers, off + 1, Min(off + n, Len(layers))),
   next |-> IF Min(off + n, Len(layers)) - off = n THEN off + n
            ELSE NoVulnerabilityNotificationPage]
\* Up to n layers from position off on, and the position of the next call, or
\* -1 when no layer is left after these.
LoadLayerIntroducingVulnerability(layers, n, off) ==
  [layers |-> SubSeq(layers, off + 1, Min(off + n, Len(layers))),
   next |-> IF off + n < Len(layers) THEN off + n
            ELSE NoVulnerabilityNotificationPage]

\* A vulnerability introduced by any of the layers, paged from the first page
\* with any page size.
InitPage ==
  /\ InitStore
  /\ introducing \in SUBSET LayerIDs
  /\ limit \in Limits
  /\ offset = VulnerabilityNotificationFirstPage
  /\ calls = 0
  /\ fetched = << >>
  /\ loaded = << >>
  /\ filledNotification = [side \in Sides |-> NoSide]

\* Mutant of LoadNextPage: the page is appended to the layers the
\* vulnerability already holds.
LoadNextPage_Appends ==
  LET got == LoadLayerIntroducingVulnerability(LayersOf(introducing), limit, offset)
  IN /\ offset # NoVulnerabilityNotificationPage
     /\ loaded' = loaded \o got.layers
     /\ offset' = got.next
     /\ calls' = calls + 1
     /\ fetched' = fetched \o got.layers
     /\ last' = Call("LoadLayerIntroducingVulnerability", NoName, 0, "nil", EmptyNotification)
     /\ UNCHANGED <<rows, now, createdNames, deletedNames, consumerVars, createdRefs,
                    diffVars, svcVars, introducing, limit>>
\* The consumer's next call, with the position the previous call returned;
\* the vulnerability's layer list holds the page loaded.
LoadNextPage ==
  LET got == LoadLayerIntroducingVulnerability(LayersOf(introducing), limit, offset)
  IN /\ offset # NoVulnerabilityNotificationPage
     /\ loaded' = got.layers
     /\ offset' = got.next
     /\ calls' = calls + 1
     /\ fetched' = fetched \o got.layers
     /\ last' = Call("LoadLayerIntroducingVulnerability", NoName, 0, "nil", EmptyNotification)
     /\ UNCHANGED <<rows, now, createdNames, deletedNames, consumerVars, createdRefs,
                    diffVars, svcVars, introducing, limit>>

NextPage == LoadNextPage

PageSpec == InitPage /\ [][NextPage]_vars


\* ------------------------------------------------------- the Null service
\* What no call of Null touches: it has no field.
nullFrame ==
  <<rows, now, createdNames, deletedNames, consumerVars, createdRefs, diffVars,
    pageVars, registryVars, drainVars>>
CanCallNull == Len(nullCalls) < MaxNullCalls
\* A call of Null's method op returns err and ret.
NullReturns(op, name, d, err, ret) ==
  /\ last' = Call(op, name, d, err, ret)
  /\ nullCalls' = Append(nullCalls, op)
  /\ UNCHANGED nullFrame

Null_Ping ==
  /\ CanCallNull
  /\ NullReturns("Ping", NoName, 0, "nil", [ok |-> TRUE])
Null_Close ==
  /\ CanCallNull
  /\ NullReturns("Close", NoName, 0, "nil", EmptyNotification)
\* Mutant of Null_GetAvailableNotification: the disabled service answers as an
\* empty store does.
Null_GetAvailableNotification_NotFound(d) ==
  /\ CanCallNull
  /\ NullReturns("GetAvailableNotification", NoName, d, "NotFound", EmptyNotification)
Null_GetAvailableNotification(d) ==
  /\ CanCallNull
  /\ NullReturns("GetAvailableNotification", NoName, d, "BackendException",
                 EmptyNotification)
Null_GetNotification(name) ==
  /\ CanCallNull
  /\ NullReturns("GetNotification", name, 0, "BackendException", EmptyNotification)
Null_SetNotificationNotified(name) ==
  /\ CanCallNull
  /\ NullReturns("SetNotificationNotified", name, 0, "BackendException", EmptyNotification)
Null_DeleteNotification(name) ==
  /\ CanCallNull
  /\ NullReturns("DeleteNotification", name, 0, "BackendException", EmptyNotification)
Null_CreateNotification(oldID, newID) ==
  /\ CanCallNull
  /\ NullReturns("CreateNotification", NoName, 0, "nil", EmptyNotification)

NextNull ==
  \/ Null_Ping
  \/ Null_Close
  \/ \E d \in Intervals : Null_GetAvailableNotification(d)
  \/ \E name \in NameSpace : Null_GetNotification(name)
  \/ \E name \in NameSpace : Null_SetNotificationNotified(name)
  \/ \E name \in NameSpace : Null_DeleteNotification(name)
  \/ \E o \in VulnIDs, n \in VulnIDs : Null_CreateNotification(o, n)

NullSpec == Init /\ [][NextNull]_vars

\* ---------------------------------------------------- the driver registries
\* Register of either package on its registry: the panic raised, if any, and
\* the registry afterwards.
NoPanic == ""
Register_Overwrites(drivers, name, driver) ==
  IF driver = Nil
    THEN [panic |-> "could not register nil Driver", drivers |-> drivers]
    ELSE [panic |-> NoPanic,
          drivers |-> [n \in DOMAIN drivers \cup {name} |->
                         IF n = name THEN driver ELSE drivers[n]]]
Register(drivers, name, driver) ==
  IF driver = Nil
    THEN [panic |-> "could not register nil Driver", drivers |-> drivers]
  ELSE IF name \in DOMAIN drivers
    THEN [panic |-> "could not register duplicate Driver", drivers |-> drivers]
  ELSE [panic |-> NoPanic,
        drivers |-> [n \in DOMAIN drivers \cup {name} |->
                       IF n = name THEN driver ELSE drivers[n]]]

\* What a driver can return when called with cfg: a service of its own and no
\* error, or no service and an error.
DriverResults(driver, type) ==
  {[service |-> [by |-> driver, type |-> type], err |-> "nil"],
   [service |-> [by |-> Nil, type |-> type], err |-> "driver error"]}
NoService(type) == [by |-> Nil, type |-> type]

\* Open of either package on its registry: the driver it invokes, what that
\* driver returned, and what Open returns.  res is the result of the driver
\* called, if one is.
OpenDriver_FallsBack(drivers, type, res) ==
  IF type \notin DOMAIN drivers /\ DOMAIN drivers = {}
    THEN [invoked |-> Nil, got |-> [service |-> NoService(type), err |-> "nil"],
          service |-> NoService(type), err |-> "unknown Driver", panic |-> NoPanic]
    ELSE [invoked |-> IF type \in DOMAIN drivers THEN drivers[type]
                      ELSE drivers[CHOOSE n \in DOMAIN drivers : TRUE],
          got |-> res, service |-> res.service, err |-> res.err, panic |-> NoPanic]
OpenDriver(drivers, type, res) ==
  IF type \notin DOMAIN drivers
    THEN [invoked |-> Nil, got |-> [service |-> NoService(type), err |-> "nil"],
          service |-> NoService(type), err |-> "unknown Driver", panic |-> NoPanic]
    ELSE [invoked |-> drivers[type], got |-> res,
          service |-> res.service, err |-> res.err, panic |-> NoPanic]

\* What the calls on the registries leave alone.
registryFrame ==
  <<rows, now, createdNames, deletedNames, consumerVars, createdRefs, diffVars,
    pageVars, nullCalls, drainVars>>

NotificationsRegister(name, driver) ==
  LET r == Register(notificationDrivers, name, driver)
  IN /\ notificationDrivers' = r.drivers
     /\ last' = Call("notifications.Register", name, 0, r.panic, [driver |-> driver])
     /\ UNCHANGED <<vulnzDrivers, registryFrame>>
VulnerabilitiesRegister(name, driver) ==
  LET r == Register(vulnzDrivers, name, driver)
  IN /\ vulnzDrivers' = r.drivers
     /\ last' = Call("vulnerabilities.Register", name, 0, r.panic, [driver |-> driver])
     /\ UNCHANGED <<notificationDrivers, registryFrame>>
\* The driver invoked is any registered one: the result is drawn for the
\* driver Open picks.
NotificationsOpen(type) ==
  \E driver \in Drivers : \E res \in DriverResults(driver, type) :
    LET r == OpenDriver(notificationDrivers, type, res)
    IN /\ r.invoked \in {Nil, driver}
       /\ last' = Call("notifications.Open", type, 0, r.err, r)
       /\ UNCHANGED <<registryVars, registryFrame>>
VulnerabilitiesOpen(type) ==
  \E driver \in Drivers : \E res \in DriverResults(driver, type) :
    LET r == OpenDriver(vulnzDrivers, type, res)
    IN /\ r.invoked \in {Nil, driver}
       /\ last' = Call("vulnerabilities.Open", type, 0, r.err, r)
       /\ UNCHANGED <<registryVars, registryFrame>>

NextRegistry ==
  \/ \E name \in DriverNames, driver \in Drivers \cup {Nil} :
       NotificationsRegister(name, driver)
  \/ \E name \in DriverNames, driver \in Drivers \cup {Nil} :
       VulnerabilitiesRegister(name, driver)
  \/ \E type \in DriverNames : NotificationsOpen(type)
  \/ \E type \in DriverNames : VulnerabilitiesOpen(type)

RegistrySpec == Init /\ [][NextRegistry]_vars


\* ---------------------------------------------- the consumer's drain loop
\* A notification with either side absent or introduced by any number of
\* layers, drained with any page size.
InitDrain ==
  /\ InitStore
  /\ introducing = {}
  /\ limit \in Limits
  /\ offset = VulnerabilityNotificationFirstPage
  /\ calls = 0
  /\ fetched = << >>
  /\ loaded = << >>
  /\ \E o \in {NoSide} \cup {Side(1..k) : k \in 0..MaxLayers},
        n \in {NoSide} \cup {Side(1..k) : k \in 0..MaxLayers} :
       filledNotification = [OldVulnerability |-> o, NewVulnerability |-> n]

\* What the drain leaves alone.
drainFrame ==
  <<rows, now, createdNames, deletedNames, consumerVars, createdRefs, diffVars,
    pageVars, registryVars, nullCalls, filledNotification>>
\* No call is made past this many on one side.
MaxPaged == MaxLayers + 2

\* The side needs no call: its reference is nil, or its offset is -1.
Exhausted(side) ==
  filledNotification[side].Nil \/ page[side] = NoVulnerabilityNotificationPage

\* GetNotification, once, with the page position at the first page.
DrainGetNotification ==
  /\ drainPc = "get"
  /\ drainPc' = "page"
  /\ last' = Call("GetNotification", NoName, 0, "nil", EmptyNotification)
  /\ UNCHANGED <<page, paged, drainFrame>>

\* Mutant of DrainLoadPage: every call is made with the first page's offset.
DrainLoadPage_FromFirstPage(side) ==
  LET got == LoadLayerIntroducingVulnerability(
               LayersOf(filledNotification[side].introducing), limit,
               VulnerabilityNotificationFirstPage)
  IN /\ drainPc = "page"
     /\ ~Exhausted(side)
     /\ paged[side] < MaxPaged
     /\ page' = [page EXCEPT ![side] = got.next]
     /\ paged' = [paged EXCEPT ![side] = @ + 1]
     /\ last' = Call("LoadLayerIntroducingVulnerability", NoName, 0, "nil", EmptyNotification)
     /\ UNCHANGED <<drainPc, drainFrame>>
\* One call of the accessor for a side that is present, with the offset that
\* side's last call returned; the offset it returns is kept for the next.
DrainLoadPage(side) ==
  LET got == LoadLayerIntroducingVulnerability(
               LayersOf(filledNotification[side].introducing), limit, page[side])
  IN /\ drainPc = "page"
     /\ ~Exhausted(side)
     /\ paged[side] < MaxPaged
     /\ page' = [page EXCEPT ![side] = got.next]
     /\ paged' = [paged EXCEPT ![side] = @ + 1]
     /\ last' = Call("LoadLayerIntroducingVulnerability", NoName, 0, "nil", EmptyNotification)
     /\ UNCHANGED <<drainPc, drainFrame>>

\* Both sides need no further call: the loop ends.
DrainDone ==
  /\ drainPc = "page"
  /\ \A side \in Sides : Exhausted(side)
  /\ drainPc' = "done"
  /\ last' = Call("Done", NoName, 0, "nil", EmptyNotification)
  /\ UNCHANGED <<page, paged, drainFrame>>

NextDrain ==
  \/ DrainGetNotification
  \/ \E side \in Sides : DrainLoadPage(side)
  \/ DrainDone

\* The consumer goes on with its loop as long as it has a step to take.
DrainSpec == InitDrain /\ [][NextDrain]_vars /\ WF_vars(NextDrain)


\* ------------------------------------------------ the persistence layer fails
\* An error of the database other than sql.ErrNoRows.
BadConnection == "bad connection"
\* What a call that only returns leaves alone.
failFrame ==
  <<createdRefs, extVars, rows, now, createdNames, deletedNames, consumerVars>>

\* Exec of insertNotification returns an error: nothing is inserted.
CreateNotificationFails(oldID, newID) ==
  /\ last' = Call("CreateNotification", NoName, 0, handleError(BadConnection),
                  EmptyNotification)
  /\ UNCHANGED failFrame
\* The scan of the query's row returns an error.
GetAvailableNotificationFails(d) ==
  /\ last' = Call("GetAvailableNotification", NoName, d, handleError(BadConnection),
                  EmptyNotification)
  /\ UNCHANGED failFrame
GetNotificationFails(name) ==
  /\ last' = Call("GetNotification", name, 0, handleError(BadConnection),
                  EmptyNotification)
  /\ UNCHANGED failFrame
\* Exec of updatedNotificationNotified returns an error: no row is updated.
SetNotificationNotifiedFails(name) ==
  /\ last' = Call("SetNotificationNotified", name, 0, handleError(BadConnection),
                  EmptyNotification)
  /\ UNCHANGED failFrame
\* Exec of removeNotification returns an error: no row is updated.
DeleteNotificationExecFails(name) ==
  /\ last' = Call("DeleteNotification", name, 0, handleError(BadConnection),
                  EmptyNotification)
  /\ UNCHANGED failFrame
\* Exec of removeNotification succeeds and result.RowsAffected() returns an
\* error: the statement has been executed, the call returns the error.
DeleteNotificationRowsAffectedFails(name) ==
  /\ rows' = removeNotification(rows, name, now)
  /\ last' = Call("DeleteNotification", name, 0, handleError(BadConnection),
                  EmptyNotification)
  /\ UNCHANGED <<createdRefs, extVars, now, createdNames, deletedNames, consumerVars>>

\* The calls of the service, each succeeding or failing in the database; the
\* notifications created are those of an inserted vulnerability.
NextFail ==
  \/ Tick
  \/ CreateNotification(0, MaxVulnID)
  \/ \E d \in Intervals : GetAvailableNotification(d)
  \/ \E name \in NameSpace : GetNotification(name)
  \/ \E name \in NameSpace : SetNotificationNotified(name)
  \/ \E name \in NameSpace : DeleteNotification(name)
  \/ CreateNotificationFails(0, MaxVulnID)
  \/ \E d \in Intervals : GetAvailableNotificationFails(d)
  \/ \E name \in NameSpace : GetNotificationFails(name)
  \/ \E name \in NameSpace : SetNotificationNotifiedFails(name)
  \/ \E name \in NameSpace : DeleteNotificationExecFails(name)
  \/ \E name \in NameSpace : DeleteNotificationRowsAffectedFails(name)

FailSpec == Init /\ [][NextFail]_vars

\* ------------------------------------------------------------ the claims
Returned(name) ==
  last.op = "GetAvailableNotification" /\ last.err = "nil" /\ last.ret.Name = name

\* C1: no two overlapping calls of GetAvailableNotification return the same
\* row.  (The statement of the claim; the code does not keep it.)
C1_NoTwoConcurrentReturnSameRow ==
  \A x \in Consumers, y \in Consumers :
    (x # y /\ pc[x] = "idle" /\ pc[y] = "idle" /\ y \in conc[x] /\ x \in conc[y]
       /\ claim[x].name # NoName)
      => claim[x].name # claim[y].name

\* C2: at most one consumer holds a name in the claimed-and-unacknowledged
\* state: its lease running, the notification not deleted.  (The statement of
\* the claim; the code does not keep it.)
C2_AtMostOneHolder ==
  \A name \in NameSpace :
    Cardinality({c \in Consumers : claim[c].name = name}) <= 1

\* The notification of row i is the only one that is not deleted.
SoleCandidate(i) ==
  /\ ~rows[i].deleted_at.Valid
  /\ \A j \in Indices(rows) \ {i} : rows[j].deleted_at.Valid
Elapsed(i) == now - rows[i].notified_at.Time

\* C3 (as stated): with the notification marked notified the only candidate,
\* GetAvailableNotification(d) returns NotFound while less than d has elapsed
\* since the mark, and the notification once d or more has elapsed.
C3_RenotifyWindowInclusive ==
  last.op = "GetAvailableNotification" =>
    \A i \in Indices(rows) :
      (SoleCandidate(i) /\ rows[i].notified_at.Valid) =>
        /\ Elapsed(i) < last.d => last.err = "NotFound"
        /\ Elapsed(i) >= last.d => Returned(rows[i].name)
\* C3 (amended): with the notification marked notified the only candidate,
\* GetAvailableNotification(d) returns NotFound while at most d has elapsed
\* since the latest mark (exactly d included), and the notification once more
\* than d has elapsed.
C3_RenotifyWindow ==
  last.op = "GetAvailableNotification" =>
    \A i \in Indices(rows) :
      (SoleCandidate(i) /\ rows[i].notified_at.Valid) =>
        /\ Elapsed(i) <= last.d => last.err = "NotFound"
        /\ Elapsed(i) > last.d => Returned(rows[i].name)
\* The notification is returned once more than a positive interval has
\* elapsed since it was marked.
C3_Witness ==
  /\ last.d > 0
  /\ \E i \in Indices(rows) :
       /\ SoleCandidate(i)
       /\ rows[i].notified_at.Valid
       /\ Elapsed(i) > last.d
       /\ Returned(rows[i].name)

\* C4: a name DeleteNotification has succeeded on is never returned by
\* GetAvailableNotification again, whatever the interval and whatever was
\* called since.
C4_DeletedNeverAvailable ==
  (last.op = "GetAvailableNotification" /\ last.err = "nil")
    => last.ret.Name \notin deletedNames
\* A deleted notification marked notified after its deletion, the mark older
\* than the interval: NotFound all the same.
C4_Witness ==
  /\ last.op = "GetAvailableNotification"
  /\ last.err = "NotFound"
  /\ \E i \in Indices(rows) :
       /\ rows[i].name \in deletedNames
       /\ rows[i].notified_at.Valid
       /\ rows[i].notified_at.Time > rows[i].deleted_at.Time
       /\ rows[i].notified_at.Time < Before(now, last.d)

\* C5: DeleteNotification of a name that no row has, or whose row is deleted
\* already, returns NotFound and leaves the table (Deleted included) as it was.
C5_DeleteRejectsMissingOrDeleted ==
  [][(/\ last'.op = "DeleteNotification"
      /\ \A i \in RowsNamed(rows, last'.name) : rows[i].deleted_at.Valid)
       => (last'.err = "NotFound" /\ rows' = rows)]_vars
\* The second delete of a name, at a later time than the first.
C5_Witness ==
  /\ last.op = "DeleteNotification"
  /\ last.err = "NotFound"
  /\ last.name \in deletedNames
  /\ \E i \in RowsNamed(rows, last.name) : rows[i].deleted_at.Time < now

\* C6: SetNotificationNotified of a name that no row has fails with NotFound.
\* (The statement of the claim; the code returns success.)
C6_SetNotifiedMissingIsNotFound ==
  (last.op = "SetNotificationNotified" /\ last.name \notin NamesOf(rows))
    => last.err = "NotFound"

\* The row of that name is not deleted, and the longest interval can elapse
\* after its latest mark before the clock reaches its bound.
LeaseCanExpire(name) ==
  \E i \in RowsNamed(rows, name) :
    /\ ~rows[i].deleted_at.Valid
    /\ (~rows[i].notified_at.Valid \/ rows[i].notified_at.Time + MaxInterval < MaxTime)
Touched(name) ==
  \/ name \in deletedNames
  \/ last.op = "SetNotificationNotified" /\ last.name = name
\* C7: a notification that is not deleted, and whose lease can run out before
\* the clock's bound, is returned by GetAvailableNotification again (unless it
\* is deleted or marked notified anew first), whoever obtained it before and
\* whatever that consumer did or failed to do.
C7_LeaseSelfHeals ==
  \A name \in NameSpace : LeaseCanExpire(name) ~> (Returned(name) \/ Touched(name))
\* A notification marked notified, its lease run out, handed out again.
C7_Witness ==
  \E i \in Indices(rows) :
    /\ Returned(rows[i].name)
    /\ rows[i].notified_at.Valid
    /\ now - rows[i].notified_at.Time > last.d

\* C8: GetNotification(name) returns NotFound exactly when no notification of
\* that name was ever created, and otherwise the row of that name, with its
\* Notified and Deleted as they are.
C8_GetNotificationExactMatch ==
  last.op = "GetNotification" =>
    /\ last.err = "NotFound" <=> last.name \notin createdNames
    /\ last.name \in createdNames =>
         /\ last.err = "nil"
         /\ last.ret.Name = last.name
         /\ \E i \in Indices(rows) :
              /\ rows[i].name = last.name
              /\ last.ret.ID = rows[i].id
              /\ last.ret.Notified = rows[i].notified_at.Time
              /\ last.ret.Deleted = rows[i].deleted_at.Time
\* The lookup of a notification that is both notified and deleted.
C8_Witness ==
  /\ last.op = "GetNotification"
  /\ last.err = "nil"
  /\ last.ret.Notified # ZeroTime
  /\ last.ret.Deleted # ZeroTime

\* C9 (as stated): GetNotification of a name DeleteNotification has succeeded
\* on fails.
C9_DeletedNeverLookedUp ==
  (last.op = "GetNotification" /\ last.name \in deletedNames) => last.err # "nil"
\* C9 (amended): a name DeleteNotification has succeeded on is never returned
\* by GetAvailableNotification, while GetNotification still returns it, with
\* Deleted set.
C9_DeletedLookedUpNotAvailable ==
  /\ (last.op = "GetNotification" /\ last.name \in deletedNames) =>
       (last.err = "nil" /\ last.ret.Name = last.name /\ last.ret.Deleted # ZeroTime)
  /\ \A name \in deletedNames : ~Returned(name)
\* A deleted notification looked up at a later time than its deletion.
C9_Witness ==
  /\ last.op = "GetNotification"
  /\ last.name \in deletedNames
  /\ last.err = "nil"
  /\ last.ret.Deleted < now

\* C10: a successful CreateNotification adds exactly one row, named as no row
\* is or ever was, with Notified and Deleted absent, which the availability
\* query yields at once for every interval.
C10_CreateAddsOneFreshAvailable ==
  [][(last'.op = "CreateNotification" /\ last'.err = "nil") =>
       /\ Len(rows') = Len(rows) + 1
       /\ SubSeq(rows', 1, Len(rows)) = rows
       /\ LET r == rows'[Len(rows')]
          IN /\ r.name \notin (createdNames \cup NamesOf(rows))
             /\ ~r.notified_at.Valid
             /\ ~r.deleted_at.Valid
             /\ \A d \in Intervals :
                  Len(rows') \in searchNotificationAvailable(rows', Before(now', d))]_vars
\* A notification created after an earlier one was deleted.
C10_Witness ==
  /\ last.op = "CreateNotification"
  /\ last.err = "nil"
  /\ Len(rows) > 1
  /\ deletedNames # {}

\* C11: along every step, a notification's Notified, once present, stays
\* present and does not decrease, and so does its Deleted; no notification
\* leaves the table.
C11_NotifiedDeletedOnlyForward ==
  [][\A i \in Indices(rows) :
       /\ i \in Indices(rows')
       /\ rows[i].notified_at.Valid =>
            /\ rows'[i].notified_at.Valid
            /\ rows'[i].notified_at.Time >= rows[i].notified_at.Time
       /\ rows[i].deleted_at.Valid =>
            /\ rows'[i].deleted_at.Valid
            /\ rows'[i].deleted_at.Time >= rows[i].deleted_at.Time]_vars
\* A notification marked notified at a later time than it was created, after
\* it was deleted.
C11_Witness ==
  /\ last.op = "SetNotificationNotified"
  /\ \E i \in RowsNamed(rows, last.name) :
       /\ rows[i].notified_at.Time = now
       /\ rows[i].created_at.Time < now
       /\ rows[i].deleted_at.Valid
       /\ rows[i].deleted_at.Time < now

\* C12: a step changes Notified of a notification only if it is
\* SetNotificationNotified of its name, and Deleted only if it is
\* DeleteNotification of its name; id, name, created_at and the two
\* vulnerability ids of a stored notification never change, and
\* CreateNotification changes no stored notification.
C12_MutationsFrame ==
  [][\A i \in Indices(rows) :
       /\ i \in Indices(rows')
       /\ rows'[i].id = rows[i].id
       /\ rows'[i].name = rows[i].name
       /\ rows'[i].created_at = rows[i].created_at
       /\ rows'[i].old_vulnerability_id = rows[i].old_vulnerability_id
       /\ rows'[i].new_vulnerability_id = rows[i].new_vulnerability_id
       /\ rows'[i].notified_at # rows[i].notified_at =>
            (last'.op = "SetNotificationNotified" /\ last'.name = rows[i].name)
       /\ rows'[i].deleted_at # rows[i].deleted_at =>
            (last'.op = "DeleteNotification" /\ last'.name = rows[i].name)]_vars
\* One of two notifications marked notified, the other one never marked.
C12_Witness ==
  /\ last.op = "SetNotificationNotified"
  /\ \E i \in Indices(rows), j \in Indices(rows) :
       /\ i # j
       /\ rows[i].name = last.name
       /\ rows[i].notified_at.Time = now
       /\ ~rows[i].deleted_at.Valid
       /\ ~rows[j].notified_at.Valid

\* C13 (as stated): every stored notification has at least one of its two
\* vulnerability references present, whatever CreateNotification was given.
C13_AtLeastOneReference ==
  \A i \in Indices(rows) :
    rows[i].old_vulnerability_id.Valid \/ rows[i].new_vulnerability_id.Valid
\* C13 (amended): a stored notification has at least one of its two
\* references present exactly when the CreateNotification that stored it was
\* given at least one vulnerability with a non-zero ID; given none, the store
\* keeps a notification with both absent.
C13_ReferencePresentIffGiven ==
  \A i \in Indices(rows) :
    (rows[i].old_vulnerability_id.Valid \/ rows[i].new_vulnerability_id.Valid)
      <=> (createdRefs[rows[i].name].old # 0 \/ createdRefs[rows[i].name].new # 0)
\* A notification stored with both references absent next to one stored with
\* a reference.
C13_Witness ==
  \E i \in Indices(rows), j \in Indices(rows) :
    /\ ~rows[i].old_vulnerability_id.Valid
    /\ ~rows[i].new_vulnerability_id.Valid
    /\ createdRefs[rows[i].name] = [old |-> 0, new |-> 0]
    /\ rows[j].new_vulnerability_id.Valid

\* C14: a call of GetAvailableNotification returns NotFound exactly when no
\* notification is undeleted, never notified or notified before the call's
\* now - renotifyInterval, and held by no other caller; otherwise it returns
\* one of those notifications.  (The statement of the claim; the code returns
\* notifications that another caller holds.)
C14_AvailableIffQualifies ==
  [][\A c \in Consumers :
       (pc[c] = "query" /\ pc'[c] = "idle") =>
         LET before == Before(call[c].at, call[c].d)
             free == {i \in Indices(rows) :
                        /\ ~rows[i].deleted_at.Valid
                        /\ (~rows[i].notified_at.Valid
                             \/ rows[i].notified_at.Time < before)
                        /\ \A x \in Consumers \ {c} : claim[x].name # rows[i].name}
         IN /\ last'.err = "NotFound" <=> free = {}
            /\ last'.err = "nil" =>
                 \E i \in free : last'.ret.Name = rows[i].name]_vars

\* What GetNotification returns for a reference, given the ID passed to
\* CreateNotification: nil exactly when that ID is 0, otherwise a vulnerability
\* of that ID and of nothing else.
RoundTrip(v, id) ==
  /\ v.Nil <=> id = 0
  /\ ~v.Nil =>
       /\ v.ID = id
       /\ v.Severity = ""
       /\ v.FixedIn = {}
       /\ v.LayersIntroducingVulnerability = << >>
\* C15: GetNotification of a notification stored by CreateNotification(old,
\* new) returns OldVulnerability absent exactly when old was, and otherwise a
\* reference of old's ID, and likewise NewVulnerability and new; the reference
\* carries the ID only, no vulnerability detail and no layer.
C15_ReferenceRoundTrip ==
  (last.op = "GetNotification" /\ last.err = "nil") =>
    /\ RoundTrip(last.ret.OldVulnerability, createdRefs[last.name].old)
    /\ RoundTrip(last.ret.NewVulnerability, createdRefs[last.name].new)
\* The lookup of a notification stored with old absent and new present.
C15_Witness ==
  /\ last.op = "GetNotification"
  /\ last.err = "nil"
  /\ createdRefs[last.name].old = 0
  /\ last.ret.OldVulnerability.Nil
  /\ ~last.ret.NewVulnerability.Nil
  /\ last.ret.NewVulnerability.ID = MaxVulnID

\* The notifications the mutation that ended last has created.
Made == {i \in Indices(rows) : rows[i].name \in mut.names}
\* What FindVulnerabilityByID resolves a reference of a notification to.
Resolved(vs, v) ==
  [severity |-> FindVulnerabilityByID(vs, v.ID).ret.Severity,
   fixedIn |-> FindVulnerabilityByID(vs, v.ID).ret.FixedIn]

\* C16: once the insert of a vulnerability that has no version in force has
\* committed, exactly one notification refers to the new version: the one
\* the insert created, whose OldVulnerability is absent and whose
\* NewVulnerability has the id of the inserted vulnerability.
C16_InsertCreatesOneNotification ==
  (mut.phase = "committed" /\ mut.kind = "insert") =>
    /\ Cardinality(Made) = 1
    /\ \A i \in Indices(rows) :
         (i \in Made \/ rows[i].new_vulnerability_id = [Int64 |-> mut.new, Valid |-> TRUE])
           => /\ i \in Made
              /\ scanNotification(rows[i], TRUE).OldVulnerability.Nil
              /\ ~scanNotification(rows[i], TRUE).NewVulnerability.Nil
              /\ scanNotification(rows[i], TRUE).NewVulnerability.ID = mut.new
\* A vulnerability inserted anew after other mutations.
C16_Witness ==
  /\ mut.phase = "committed"
  /\ mut.kind = "insert"
  /\ mut.new > 1
  /\ Len(rows) > 1

\* C17: once an update has committed, the notification it created has an
\* OldVulnerability that FindVulnerabilityByID resolves to the state before
\* the update and a NewVulnerability that it resolves to the state after; and
\* whatever a notification's references resolve to, they resolve to the same
\* after every later step.
C17_UpdateRefsResolve ==
  /\ [](mut.phase = "committed" /\ mut.kind = "update" =>
          /\ Made # {}
          /\ \A i \in Made :
               LET n == scanNotification(rows[i], TRUE)
               IN /\ ~n.OldVulnerability.Nil
                  /\ ~n.NewVulnerability.Nil
                  /\ FindVulnerabilityByID(vulnz, n.OldVulnerability.ID).err = "nil"
                  /\ FindVulnerabilityByID(vulnz, n.NewVulnerability.ID).err = "nil"
                  /\ Resolved(vulnz, n.OldVulnerability) = mut.before
                  /\ Resolved(vulnz, n.NewVulnerability) = mut.after)
  /\ [][\A i \in Indices(rows) :
          LET n == scanNotification(rows[i], TRUE)
          IN /\ (~n.OldVulnerability.Nil
                   /\ FindVulnerabilityByID(vulnz, n.OldVulnerability.ID).err = "nil")
                  => FindVulnerabilityByID(vulnz', n.OldVulnerability.ID)
                       = FindVulnerabilityByID(vulnz, n.OldVulnerability.ID)
             /\ (~n.NewVulnerability.Nil
                   /\ FindVulnerabilityByID(vulnz, n.NewVulnerability.ID).err = "nil")
                  => FindVulnerabilityByID(vulnz', n.NewVulnerability.ID)
                       = FindVulnerabilityByID(vulnz, n.NewVulnerability.ID)]_vars
\* A vulnerability updated and then deleted: the update's notification still
\* resolves to two versions that differ.
C17_Witness ==
  /\ mut.phase = "committed"
  /\ mut.kind = "delete"
  /\ \E i \in Indices(rows) :
       LET n == scanNotification(rows[i], TRUE)
       IN /\ ~n.OldVulnerability.Nil
          /\ n.NewVulnerability.ID = mut.old
          /\ Resolved(vulnz, n.OldVulnerability) # Resolved(vulnz, n.NewVulnerability)
          /\ Resolved(vulnz, n.NewVulnerability) = mut.before

\* The id of the most recent version of that vulnerability.
MostRecent(vs, key) ==
  CHOOSE id \in {vs[i].id : i \in Indices(vs)} :
    /\ \E i \in Indices(vs) : vs[i].id = id /\ vs[i].key = key
    /\ \A i \in Indices(vs) : vs[i].key = key => vs[i].id <= id
\* C18: once the deletion of a vulnerability has committed, the notification
\* it created has NewVulnerability absent and an OldVulnerability that is the
\* most recent version of that vulnerability and resolves to its state before
\* the deletion.
C18_DeleteCreatesNotification ==
  (mut.phase = "committed" /\ mut.kind = "delete") =>
    /\ Made # {}
    /\ \A i \in Made :
         LET n == scanNotification(rows[i], TRUE)
         IN /\ n.NewVulnerability.Nil
            /\ ~n.OldVulnerability.Nil
            /\ n.OldVulnerability.ID = MostRecent(vulnz, mut.key)
            /\ FindVulnerabilityByID(vulnz, n.OldVulnerability.ID).err = "nil"
            /\ Resolved(vulnz, n.OldVulnerability) = mut.before
\* The deletion of a vulnerability that had been updated.
C18_Witness ==
  /\ mut.phase = "committed"
  /\ mut.kind = "delete"
  /\ mut.old > 1
  /\ \E i \in Indices(vulnz) : vulnz[i].key = mut.key /\ vulnz[i].id < mut.old

\* C19: whenever no mutation is in progress, every stored notification
\* reports a mutation that has committed (none reports one that was rolled
\* back or that failed), and every mutation that has committed has its
\* notification.  (The statement of the claim; the code stores the
\* notification on its own, whatever becomes of the mutation.)
C19_NotificationIffCommitted ==
  ~InProgress =>
    /\ \A i \in Indices(rows) :
         [old |-> rows[i].old_vulnerability_id.Int64,
          new |-> rows[i].new_vulnerability_id.Int64] \in committed
    /\ \A m \in committed :
         \E i \in Indices(rows) :
           /\ rows[i].old_vulnerability_id.Int64 = m.old
           /\ rows[i].new_vulnerability_id.Int64 = m.new

Ceil(k, p) == (k + p - 1) \div p
\* The layers fetched are the introducing layers, each once.
FetchedAll ==
  /\ Len(fetched) = Cardinality(introducing)
  /\ {fetched[i] : i \in 1..Len(fetched)} = introducing

\* C20 (as stated): paging from offset 0 with page size p, -1 is returned by
\* call number ceil(k/p) and by no earlier call, k being the number of
\* introducing layers, and the calls have then returned each of the k layers
\* once.
C20_PaginationExhaustion ==
  /\ offset = NoVulnerabilityNotificationPage =>
       (calls = Ceil(Cardinality(introducing), limit) /\ FetchedAll)
  /\ (calls > 0 /\ offset # NoVulnerabilityNotificationPage) =>
       calls < Ceil(Cardinality(introducing), limit)
\* C20 (amended): the same for k >= 1; for k = 0 the first call returns -1
\* and no layer.
C20_PaginationExhaustionNonEmpty ==
  LET k == Cardinality(introducing)
      n == IF k = 0 THEN 1 ELSE Ceil(k, limit)
  IN /\ offset = NoVulnerabilityNotificationPage => (calls = n /\ FetchedAll)
     /\ (calls > 0 /\ offset # NoVulnerabilityNotificationPage) => calls < n
\* Several full pages, the last one full too.
C20_Witness ==
  /\ offset = NoVulnerabilityNotificationPage
  /\ limit > 1
  /\ calls > 1
  /\ Cardinality(introducing) = calls * limit

\* The page a call at position off must load: the layers at positions
\* off+1 .. off+limit of the introducing layers, as far as there are any.
PageAt(off) ==
  [i \in 1..Min(limit, Cardinality(introducing) - off) |->
     LayersOf(introducing)[off + i]]

\* C21 (as stated): each call of LoadLayerIntroducingVulnerability leaves the
\* vulnerability's layer list as it was before the call followed by the new
\* page of at most limit layers, and returns the offset of the next call, or
\* -1 once the layers are exhausted.
C21_AccessorAppends ==
  [][calls' = calls + 1 =>
       /\ loaded' = loaded \o PageAt(offset)
       /\ offset' = IF offset + limit < Cardinality(introducing)
                      THEN offset + limit ELSE NoVulnerabilityNotificationPage]_vars
\* C21 (amended): each call leaves the vulnerability's layer list holding the
\* new page only, the at most limit layers from the offset on, and returns
\* the offset of the next call, or -1 once the layers are exhausted.
C21_AccessorLoadsPage ==
  [][calls' = calls + 1 =>
       /\ loaded' = PageAt(offset)
       /\ Len(loaded') <= limit
       /\ offset' = IF offset + limit < Cardinality(introducing)
                      THEN offset + limit ELSE NoVulnerabilityNotificationPage]_vars
\* The test's case: three layers paged by two; the second call leaves one
\* layer in the list.
C21_Witness ==
  /\ Cardinality(introducing) = 3
  /\ limit = 2
  /\ calls = 2
  /\ Len(loaded) = 1
  /\ Len(fetched) = 3

\* C22: whatever was called before, the Null service's GetAvailableNotification
\* and GetNotification return BackendException and an empty notification,
\* its SetNotificationNotified and DeleteNotification return
\* BackendException, its CreateNotification returns no error and stores
\* nothing, and its Ping returns true.
C22_NullService ==
  /\ rows = << >>
  /\ createdNames = {}
  /\ last.op \in {"GetAvailableNotification", "GetNotification"} =>
       (last.err = "BackendException" /\ last.ret = EmptyNotification)
  /\ last.op \in {"SetNotificationNotified", "DeleteNotification"} =>
       last.err = "BackendException"
  /\ last.op = "CreateNotification" => last.err = "nil"
  /\ last.op = "Ping" => last.ret.ok
\* GetAvailableNotification called after CreateNotification succeeded.
C22_Witness ==
  /\ last.op = "GetAvailableNotification"
  /\ last.err = "BackendException"
  /\ Len(nullCalls) = 3
  /\ nullCalls[1] = "CreateNotification"
  /\ nullCalls[2] = "Ping"

\* What one step does to a registry: no entry is removed or replaced.
Kept(drivers, after) ==
  \A n \in DOMAIN drivers : n \in DOMAIN after /\ after[n] = drivers[n]
\* A call of Register on a registry: it panics exactly when the driver is nil
\* or the name registered, then leaves the registry as it was, and otherwise
\* adds the driver under the name.
Registered(drivers, after, c) ==
  /\ c.err # NoPanic <=> (c.ret.driver = Nil \/ c.name \in DOMAIN drivers)
  /\ c.err # NoPanic => after = drivers
  /\ c.err = NoPanic =>
       (DOMAIN after = DOMAIN drivers \cup {c.name} /\ after[c.name] = c.ret.driver)

\* C23: Register panics if the driver is nil or the name is registered, and
\* then leaves the registry unchanged; no step replaces the driver a name
\* maps to, so each name maps to the first driver registered under it.
C23_RegisterKeepsFirst ==
  [][/\ Kept(notificationDrivers, notificationDrivers')
     /\ Kept(vulnzDrivers, vulnzDrivers')
     /\ last'.op = "notifications.Register" =>
          Registered(notificationDrivers, notificationDrivers', last')
     /\ last'.op = "vulnerabilities.Register" =>
          Registered(vulnzDrivers, vulnzDrivers', last')]_vars
\* Register has panicked on a name registered with another driver, which the
\* name still maps to.
C23_Witness ==
  /\ last.op = "notifications.Register"
  /\ last.err = "could not register duplicate Driver"
  /\ last.ret.driver = "driver2"
  /\ notificationDrivers[last.name] = "driver1"

\* What Open must have done on a registry for the call c.
Opened(drivers, c) ==
  IF c.name \notin DOMAIN drivers
    THEN /\ c.err = "unknown Driver"
         /\ c.ret.service.by = Nil
         /\ c.ret.invoked = Nil
         /\ c.ret.panic = NoPanic
    ELSE /\ c.ret.invoked = drivers[c.name]
         /\ c.ret.got \in DriverResults(drivers[c.name], c.name)
         /\ c.ret.service = c.ret.got.service
         /\ c.err = c.ret.got.err

\* C24: Open with a type that is not registered returns an error and no
\* service, does not panic and invokes no driver; Open with a registered type
\* invokes the driver registered under that name, and no other, and returns
\* what it returned.
C24_OpenInvokesRegistered ==
  /\ last.op = "notifications.Open" => Opened(notificationDrivers, last)
  /\ last.op = "vulnerabilities.Open" => Opened(vulnzDrivers, last)
\* Open of a type that is not registered while another type is.
C24_Witness ==
  /\ last.op = "vulnerabilities.Open"
  /\ last.name \notin DOMAIN vulnzDrivers
  /\ DOMAIN vulnzDrivers # {}
  /\ last.err = "unknown Driver"

\* C25: a call of GetAvailableNotification changes no field of any
\* notification, so the notification it returns still qualifies for the same
\* interval right after the call: a second call can return it again.
C25_GetAvailableReadOnly ==
  [][last'.op = "GetAvailableNotification" =>
       /\ rows' = rows
       /\ last'.err = "nil" =>
            \E i \in searchNotificationAvailable(rows', Before(now', last'.d)) :
              rows'[i].name = last'.ret.Name]_vars
\* A notification has been returned, another qualifies as well, and the one
\* returned is still not notified.
C25_Witness ==
  /\ last.op = "GetAvailableNotification"
  /\ last.err = "nil"
  /\ Cardinality(searchNotificationAvailable(rows, Before(now, last.d))) = 2
  /\ \E i \in Indices(rows) :
       rows[i].name = last.ret.Name /\ ~rows[i].notified_at.Valid

\* C29: CreateNotification stores a reference as absent exactly when its ID
\* is 0, so no reference that GetNotification reads back has the ID 0: a
\* vulnerability of ID 0 given to CreateNotification comes back absent.
C29_ZeroIsAbsent ==
  /\ \A i \in Indices(rows) :
       /\ rows[i].old_vulnerability_id.Valid <=> createdRefs[rows[i].name].old # 0
       /\ rows[i].new_vulnerability_id.Valid <=> createdRefs[rows[i].name].new # 0
  /\ (last.op = "GetNotification" /\ last.err = "nil") =>
       /\ ~last.ret.OldVulnerability.Nil => last.ret.OldVulnerability.ID # 0
       /\ ~last.ret.NewVulnerability.Nil => last.ret.NewVulnerability.ID # 0
\* The lookup of a notification stored with a new vulnerability of ID 0 and an
\* old one of another ID.
C29_Witness ==
  /\ last.op = "GetNotification"
  /\ last.err = "nil"
  /\ createdRefs[last.name].new = 0
  /\ createdRefs[last.name].old # 0
  /\ last.ret.NewVulnerability.Nil
  /\ last.ret.OldVulnerability.ID = createdRefs[last.name].old

\* The calls a side of k layers takes at the page size limit.
CallsFor(side) ==
  LET k == Cardinality(filledNotification[side].introducing)
  IN IF filledNotification[side].Nil THEN 0
     ELSE IF k = 0 THEN 1 ELSE Ceil(k, limit)

\* C27: the drain loop ends, whatever the two layer lists and the page size
\* are: after GetNotification each side that is present is paged from offset
\* 0 with the offset returned until it reports -1, which takes finitely many
\* calls; a side that is absent counts as exhausted and is never paged.
C27_DrainTerminates ==
  /\ <>(drainPc = "done")
  /\ [](\A side \in Sides : paged[side] <= CallsFor(side))
  /\ [](drainPc = "done" => \A side \in Sides : paged[side] = CallsFor(side))
\* The loop has ended with the old side absent and never paged, and the new
\* side paged in two calls.
C27_Witness ==
  /\ drainPc = "done"
  /\ filledNotification.OldVulnerability.Nil
  /\ paged.OldVulnerability = 0
  /\ paged.NewVulnerability = 2
  /\ page.NewVulnerability = NoVulnerabilityNotificationPage

\* C28: a call during which the persistence layer fails returns an error and
\* leaves the notifications exactly as they were before the call.  (The
\* statement of the claim; DeleteNotification does not keep it when
\* RowsAffected fails after the statement succeeded.)
C28_FailureLeavesStore ==
  [][last'.err = "BackendException" => rows' = rows]_vars

====
